---- MODULE Spec2Model ----
(***************************************************************************)
(* A model of iwopy.core.OptFunctionList (src/iwopy/core/function_list.py): *)
(* the composer that manages the variables and the components of the       *)
(* functions added to it.                                                  *)
(*                                                                         *)
(* Python lists and numpy vectors are TLA+ sequences.  Positions, offsets  *)
(* and component indices keep their Python (0-based) values; At(s, i) is   *)
(* s[i].  The sub-functions are external collaborators: a leaf is an entry *)
(* of the catalogue Leaf, and what it returns is a symbolic value naming   *)
(* the leaf and every argument it was called with.                         *)
(***************************************************************************)
EXTENDS Integers, Sequences, FiniteSets, TLC

\* Longest function list of a composer.
MaxFuncs == 3
\* Longest function list of a composer nested in another.
MaxInner == 1
\* Longest explicit components list handed to ana_deriv.
MaxComps == 2

VARIABLES functions, cnames, initialized, vnamesi, vnamesf, sizes,
          func_vars_int, func_vars_float, call

vars == <<functions, cnames, initialized, vnamesi, vnamesf, sizes,
          func_vars_int, func_vars_float, call>>

(***************************************************************************)
(* Python and numpy helpers                                                *)
(***************************************************************************)
Min(a, b) == IF a < b THEN a ELSE b
Max(a, b) == IF a > b THEN a ELSE b

\* s[i]
At(s, i) == s[i + 1]

\* list(range(a, b))
PyRange(a, b) == [k \in 1..Max(b - a, 0) |-> a + k - 1]

\* s[i0:i1] for 0 <= i0, i1 (a slice is clamped to the length)
PySlice(s, i0, i1) == SubSeq(s, Min(i0, Len(s)) + 1, Min(i1, Len(s)))

\* v in s
In(v, s) == \E k \in 1..Len(s) : s[k] = v

\* s.index(v): the first position of v
Index(s, v) == CHOOSE i \in 0..(Len(s) - 1) :
                  /\ s[i + 1] = v
                  /\ \A j \in 0..(i - 1) : s[j + 1] # v

\* sum(s)
RECURSIVE SumSeq(_)
SumSeq(s) == IF s = <<>> THEN 0 ELSE s[1] + SumSeq(Tail(s))

\* A faulty dict.fromkeys: nothing is dropped.
DictFromKeysKeepsAll(s) == s

\* list(dict.fromkeys(s)): duplicates removed, first occurrences kept in order
RECURSIVE DictFromKeys(_)
DictFromKeys(s) ==
    IF s = <<>> THEN <<>>
    ELSE LET r == DictFromKeys(SubSeq(s, 1, Len(s) - 1))
             v == s[Len(s)]
         IN  IF In(v, r) THEN r ELSE Append(r, v)

\* np.nan
NaN == <<"nan">>

\* np.full(n, np.nan)
Full(n) == [k \in 1..n |-> NaN]

(***************************************************************************)
(* The sub-functions                                                       *)
(***************************************************************************)
Composers == {"outer", "inner"}
LeafIds == {"A", "B", "G", "D", "E"}

\* The catalogue of leaf functions: what each declares.  E belongs to
\* another problem than the composers.
Leaf == [f \in LeafIds |->
    CASE f = "A" -> [problem |-> "P", var_names_int |-> <<>>,
                     var_names_float |-> <<"x", "z">>, n_components |-> 1,
                     component_names |-> <<"A_0">>]
      [] f = "B" -> [problem |-> "P", var_names_int |-> <<"i">>,
                     var_names_float |-> <<"y">>, n_components |-> 2,
                     component_names |-> <<"B_0", "B_1">>]
      [] f = "G" -> [problem |-> "P", var_names_int |-> <<"i", "j">>,
                     var_names_float |-> <<"x", "y">>, n_components |-> 2,
                     component_names |-> <<"G_0", "G_1">>]
      [] f = "D" -> [problem |-> "P", var_names_int |-> <<"j">>,
                     var_names_float |-> <<>>, n_components |-> 1,
                     component_names |-> <<"D_0">>]
      [] f = "E" -> [problem |-> "Q", var_names_int |-> <<>>,
                     var_names_float |-> <<"x">>, n_components |-> 1,
                     component_names |-> <<"E_0">>]]

\* function.problem; both composers are built on problem P
problem(f) == IF f \in Composers THEN "P" ELSE Leaf[f].problem

\* function.component_names
component_names(f) == IF f \in Composers THEN cnames[f] ELSE Leaf[f].component_names

\* leaf.calc_individual(varsi, varsf, problem_results)
LeafCalcIndividual(f, varsi, varsf) ==
    [k \in 1..Leaf[f].n_components |-> <<"val", f, k - 1, varsi, varsf>>]

\* leaf.ana_deriv(varsi, varsf, vi, components=cs)
LeafAnaDeriv(f, varsi, varsf, vi, cs) ==
    [k \in 1..Len(cs) |-> <<"d", f, cs[k], vi, varsi, varsf>>]

(***************************************************************************)
(* initialize                                                              *)
(***************************************************************************)
\* An index mapping: the slice np.s_[start:stop], or a list of positions.
SliceMap(a, b) == [kind |-> "slice", start |-> a, stop |-> b, idx |-> <<>>]
ListMap(l) == [kind |-> "list", start |-> 0, stop |-> 0, idx |-> l]

\* A faulty getv: the run test includes l[-1], the slice still stops before it.
getvDropsLast(vnames, fvnames) ==
    IF Len(fvnames) = 0 THEN ListMap(<<>>)
    ELSE LET l == [k \in 1..Len(fvnames) |-> Index(vnames, fvnames[k])]
         IN  IF PyRange(l[1], l[Len(l)] + 1) = l
             THEN SliceMap(l[1], l[Len(l)])
             ELSE ListMap(l)

\* getv(vnames, fvnames)
getv(vnames, fvnames) ==
    IF Len(fvnames) = 0 THEN ListMap(<<>>)
    ELSE LET l == [k \in 1..Len(fvnames) |-> Index(vnames, fvnames[k])]
         IN  IF PyRange(l[1], l[Len(l)]) = l
             THEN SliceMap(l[1], l[Len(l)])
             ELSE ListMap(l)

\* v[m] for an index mapping m
Take(v, m) == IF m.kind = "slice"
              THEN PySlice(v, m.start, m.stop)
              ELSE [k \in 1..Len(m.idx) |-> At(v, m.idx[k])]

\* What initialize() leaves in composer c, a sub-function that is a composer
\* not yet initialized being initialized on the way.
RECURSIVE Built(_)
Built(c) ==
    LET fs == functions[c]
        sub(f) == IF f \in Composers
                  THEN IF initialized[f]
                       THEN [vi |-> vnamesi[f], vf |-> vnamesf[f],
                             n |-> SumSeq(sizes[f])]
                       ELSE LET b == Built(f)
                            IN  [vi |-> b.vnamesi, vf |-> b.vnamesf,
                                 n |-> SumSeq(b.sizes)]
                  ELSE [vi |-> Leaf[f].var_names_int,
                        vf |-> Leaf[f].var_names_float,
                        n |-> Leaf[f].n_components]
        RECURSIVE alli(_), allf(_)
        alli(k) == IF k = 0 THEN <<>> ELSE alli(k - 1) \o sub(fs[k]).vi
        allf(k) == IF k = 0 THEN <<>> ELSE allf(k - 1) \o sub(fs[k]).vf
        regi == DictFromKeys(alli(Len(fs)))
        regf == DictFromKeys(allf(Len(fs)))
    IN  [vnamesi |-> regi,
         vnamesf |-> regf,
         sizes |-> [k \in 1..Len(fs) |-> sub(fs[k]).n],
         func_vars_int |-> [k \in 1..Len(fs) |-> getv(regi, sub(fs[k]).vi)],
         func_vars_float |-> [k \in 1..Len(fs) |-> getv(regf, sub(fs[k]).vf)]]

\* The composers one initialize() of c initializes.
RECURSIVE Initializes(_)
Initializes(c) ==
    {c} \cup UNION {Initializes(f) :
                      f \in {g \in Composers : In(g, functions[c]) /\ ~initialized[g]}}

\* The bound on the length of composer c's function list.
Cap(c) == IF c = "outer" THEN MaxFuncs ELSE MaxInner

NoCall == [op |-> "none", obj |-> "outer", args |-> <<>>, ret |-> <<>>,
           raised |-> FALSE, calls |-> <<>>, writes |-> <<>>]

\* The composers are called from one thread: no call is made before the
\* one before it has returned.
Idle == call.op = "none"

Returned(op, c, args, ret) == [NoCall EXCEPT !.op = op, !.obj = c, !.args = args, !.ret = ret]

Raised(op, c, args, what) ==
    [NoCall EXCEPT !.op = op, !.obj = c, !.args = args, !.ret = what, !.raised = TRUE]

\* A faulty append: the function is stored before the checks.
AppendStoresFirst(c, f) ==
    /\ Idle
    /\ Len(functions[c]) < Cap(c)
    /\ functions' = [functions EXCEPT ![c] = Append(@, f)]
    /\ IF initialized[c] \/ problem(f) # problem(c)
       THEN /\ call' = Raised("append", c, <<f>>, "ValueError")
            /\ UNCHANGED cnames
       ELSE /\ cnames' = [cnames EXCEPT ![c] = @ \o component_names(f)]
            /\ call' = Returned("append", c, <<f>>, <<>>)
    /\ UNCHANGED <<initialized, vnamesi, vnamesf, sizes, func_vars_int, func_vars_float>>

\* append(function); the model stops appending at Cap(c) functions
Append_(c, f) ==
    /\ Idle
    /\ Len(functions[c]) < Cap(c)
    /\ IF initialized[c]
       THEN /\ call' = Raised("append", c, <<f>>, "after initialization")
            /\ UNCHANGED <<functions, cnames>>
       ELSE IF problem(f) # problem(c)
       THEN /\ call' = Raised("append", c, <<f>>, "problems don't match")
            /\ UNCHANGED <<functions, cnames>>
       ELSE /\ functions' = [functions EXCEPT ![c] = Append(@, f)]
            /\ cnames' = [cnames EXCEPT ![c] = @ \o component_names(f)]
            /\ call' = Returned("append", c, <<f>>, <<>>)
    /\ UNCHANGED <<initialized, vnamesi, vnamesf, sizes, func_vars_int, func_vars_float>>

\* initialize(verbosity); it is run once per composer (a second run is not
\* supported)
Initialize(c) ==
    /\ Idle
    /\ ~initialized[c]
    /\ LET done == Initializes(c)
           upd(old, field) == [d \in Composers |->
                                 IF d \in done THEN Built(d)[field] ELSE old[d]]
       IN  /\ vnamesi' = upd(vnamesi, "vnamesi")
           /\ vnamesf' = upd(vnamesf, "vnamesf")
           /\ sizes' = upd(sizes, "sizes")
           /\ func_vars_int' = upd(func_vars_int, "func_vars_int")
           /\ func_vars_float' = upd(func_vars_float, "func_vars_float")
           /\ initialized' = [d \in Composers |-> initialized[d] \/ d \in done]
    /\ call' = Returned("initialize", c, <<>>, <<>>)
    /\ UNCHANGED <<functions, cnames>>

(***************************************************************************)
(* n_components, split_individual, split_population                        *)
(***************************************************************************)
\* n_components()
n_components(c) == SumSeq(sizes[c])

\* n_functions
n_functions(c) == Len(functions[c])

\* A faulty splitting loop: i0 is not moved on to i1.
split_loop_keeps_i0(sz, n, fi, i0, out) ==
    [k \in 1..n |-> [i0 |-> 0, i1 |-> sz[k]]]

\* The loop of split_individual and split_population: the offset pairs
\* (i0, i1) it slices with, for fi, fi + 1, ... up to n functions.
RECURSIVE split_loop(_, _, _, _, _)
split_loop(sz, n, fi, i0, out) ==
    IF fi = n THEN out
    ELSE LET i1 == i0 + At(sz, fi)
         IN  split_loop(sz, n, fi + 1, i1, Append(out, [i0 |-> i0, i1 |-> i1]))

\* split_individual(data): the pieces data[i0:i1]
split_individual(c, data) ==
    LET at == split_loop(sizes[c], n_functions(c), 0, 0, <<>>)
    IN  [k \in 1..Len(at) |-> PySlice(data, at[k].i0, at[k].i1)]

\* split_population(data): the pieces data[:, i0:i1]
split_population(c, data) ==
    LET at == split_loop(sizes[c], n_functions(c), 0, 0, <<>>)
    IN  [k \in 1..Len(at) |->
           [r \in 1..Len(data) |-> PySlice(data[r], at[k].i0, at[k].i1)]]

(***************************************************************************)
(* calc_individual                                                         *)
(***************************************************************************)
\* values[i0:i1] = r, for r of the length of the slice or of length one
SetSlice(values, i0, i1, r) ==
    LET a == Min(i0, Len(values))
        b == Max(a, Min(i1, Len(values)))
    IN  [k \in 1..Len(values) |->
           IF k > a /\ k <= b
           THEN (IF Len(r) = 1 THEN r[1] ELSE r[k - a])
           ELSE values[k]]

\* How often each position of the buffer has been assigned, after [i0, i1).
Written(writes, i0, i1) ==
    [k \in 1..Len(writes) |-> IF k > i0 /\ k <= i1 THEN writes[k] + 1 ELSE writes[k]]

\* A faulty loop of calc_individual: i0 is not moved on to i1.
calc_loop_keeps_i0(c, vars_int, vars_float, fi, i0, acc) ==
    LET RECURSIVE go(_, _)
        go(k, a) ==
            IF k = Len(functions[c]) THEN a
            ELSE LET f == At(functions[c], k)
                     i1 == At(sizes[c], k)
                     varsi == Take(vars_int, At(func_vars_int[c], k))
                     varsf == Take(vars_float, At(func_vars_float[c], k))
                     r == LeafCalcIndividual(f, varsi, varsf)
                 IN  go(k + 1,
                        [values |-> SetSlice(a.values, 0, i1, r),
                         writes |-> Written(a.writes, 0, i1),
                         calls |-> Append(a.calls,
                             [fi |-> k, f |-> f, varsi |-> varsi, varsf |-> varsf,
                              i0 |-> 0, i1 |-> i1, ret |-> r])])
    IN  go(fi, acc)

\* The loop of calc_individual from function fi and offset i0 on; acc holds
\* the buffer, the assignments counted, and the calls made so far.
RECURSIVE calc_loop(_, _, _, _, _, _)
calc_loop(c, vars_int, vars_float, fi, i0, acc) ==
    IF fi = Len(functions[c]) THEN acc
    ELSE LET f == At(functions[c], fi)
             i1 == i0 + At(sizes[c], fi)
             varsi == Take(vars_int, At(func_vars_int[c], fi))
             varsf == Take(vars_float, At(func_vars_float[c], fi))
             r == LeafCalcIndividual(f, varsi, varsf)
         IN  calc_loop(c, vars_int, vars_float, fi + 1, i1,
                [values |-> SetSlice(acc.values, i0, i1, r),
                 writes |-> Written(acc.writes, i0, i1),
                 calls |-> Append(acc.calls,
                     [fi |-> fi, f |-> f, varsi |-> varsi, varsf |-> varsf,
                      i0 |-> i0, i1 |-> i1, ret |-> r])])

\* calc_individual(vars_int, vars_float, problem_results)
calc_individual(c, vars_int, vars_float) ==
    calc_loop(c, vars_int, vars_float, 0, 0,
              [values |-> Full(n_components(c)),
               writes |-> [k \in 1..n_components(c) |-> 0],
               calls |-> <<>>])

(***************************************************************************)
(* ana_deriv                                                               *)
(***************************************************************************)
\* components=None, and components=cs
None == [given |-> FALSE, list |-> <<>>]
Some(cs) == [given |-> TRUE, list |-> cs]

\* The first loop of ana_deriv: for each function the components selected
\* from its offset range [i0, i1).
cmpnts_of(c, components) ==
    LET at == split_loop(sizes[c], Len(sizes[c]), 0, 0, <<>>)
    IN  [k \in 1..Len(at) |->
           IF ~components.given
           THEN PyRange(at[k].i0, at[k].i1)
           ELSE SelectSeq(components.list,
                          LAMBDA x : x >= at[k].i0 /\ x < at[k].i1)]

\* A faulty translation of var: the registry position is passed on.
local_var_untranslated(m, var) == var

\* list(self.func_vars_float[fi]).index(var)
local_var(m, var) == Index(m.idx, var)

\* The second loop of ana_deriv from function fi and output offset c0 on;
\* acc holds the output, the calls made so far, and whether list() of a
\* slice has raised.
RECURSIVE ana_loop(_, _, _, _, _, _, _, _)
ana_loop(c, vars_int, vars_float, var, cm, fi, c0, acc) ==
    IF acc.raised \/ fi = Len(functions[c]) THEN acc
    ELSE LET f == At(functions[c], fi)
             c1 == c0 + Len(At(cm, fi))
             m == At(func_vars_float[c], fi)
             varsi == Take(vars_int, At(func_vars_int[c], fi))
             varsf == Take(vars_float, m)
             vi == local_var(m, var)
             r == LeafAnaDeriv(f, varsi, varsf, vi, At(cm, fi))
             next(a) == ana_loop(c, vars_int, vars_float, var, cm, fi + 1, c1, a)
         IN  IF c1 > c0
             THEN IF m.kind = "slice"
                  THEN [acc EXCEPT !.raised = TRUE]
                  ELSE IF In(var, m.idx)
                  THEN next([acc EXCEPT
                          !.deriv = SetSlice(@, c0, c1, r),
                          !.calls = Append(@,
                              [fi |-> fi, f |-> f, varsi |-> varsi, varsf |-> varsf,
                               var |-> vi, components |-> At(cm, fi),
                               c0 |-> c0, c1 |-> c1, ret |-> r])])
                  ELSE next(acc)
             ELSE next(acc)

\* ana_deriv(vars_int, vars_float, var, components)
ana_deriv(c, vars_int, vars_float, var, components) ==
    LET n_cmpnts == IF components.given THEN Len(components.list)
                    ELSE n_components(c)
    IN  ana_loop(c, vars_int, vars_float, var, cmpnts_of(c, components), 0, 0,
                 [deriv |-> Full(n_cmpnts), calls |-> <<>>, raised |-> FALSE])

(***************************************************************************)
(* The calls of the operations                                             *)
(***************************************************************************)
\* The argument vectors the operations are called with.
Ramp(n, dir, step) == [k \in 1..n |-> IF dir = "up" THEN step * k
                                       ELSE step * (n + 1 - k)]
Dirs == {"up", "down"}
DataVectors(n) == {Ramp(n, d, s) : d \in Dirs, s \in {1, 5}}

\* All sequences over S of length at most n
SeqsUpTo(S, n) == UNION {[1..k -> S] : k \in 0..n}

Unchanged == UNCHANGED <<functions, cnames, initialized, vnamesi, vnamesf, sizes,
                         func_vars_int, func_vars_float>>

\* The operations below are called on an initialized composer.
SplitIndividual(c) ==
    /\ Idle
    /\ initialized[c]
    /\ \E data \in DataVectors(n_components(c)) :
          call' = [Returned("split_individual", c, [data |-> data],
                            split_individual(c, data))
                   EXCEPT !.calls = split_loop(sizes[c], n_functions(c), 0, 0, <<>>)]
    /\ Unchanged

SplitPopulation(c) ==
    /\ Idle
    /\ initialized[c]
    /\ \E d1 \in DataVectors(n_components(c)), d2 \in DataVectors(n_components(c)) :
          call' = [Returned("split_population", c, [data |-> <<d1, d2>>],
                            split_population(c, <<d1, d2>>))
                   EXCEPT !.calls = split_loop(sizes[c], n_functions(c), 0, 0, <<>>)]
    /\ Unchanged

\* The variable vectors of one individual, in registry order.
Individuals(c, dirs) == {[vars_int |-> Ramp(Len(vnamesi[c]), d, 1),
                          vars_float |-> Ramp(Len(vnamesf[c]), d, 10)] : d \in dirs}

\* The explicit components lists: at most MaxComps of the n components,
\* none of them twice, in any order.
ComponentLists(n) ==
    {cs \in SeqsUpTo(0..(n - 1), MaxComps) :
        \A i \in 1..Len(cs) : \A j \in 1..Len(cs) : i # j => cs[i] # cs[j]}

CalcIndividual(c) ==
    /\ Idle
    /\ initialized[c]
    /\ \E x \in Individuals(c, Dirs) :
          LET r == calc_individual(c, x.vars_int, x.vars_float)
          IN  call' = [Returned("calc_individual", c, x, r.values)
                       EXCEPT !.calls = r.calls, !.writes = r.writes]
    /\ Unchanged

AnaDeriv(c) ==
    /\ Idle
    /\ initialized[c]
    /\ \E x \in Individuals(c, {"up"}), var \in 0..Len(vnamesf[c]),
          components \in {None} \cup {Some(cs) : cs \in ComponentLists(n_components(c))} :
          LET args == [vars_int |-> x.vars_int, vars_float |-> x.vars_float,
                       var |-> var, components |-> components]
              r == ana_deriv(c, x.vars_int, x.vars_float, var, components)
          IN  call' = IF r.raised
                      THEN Raised("ana_deriv", c, args, "TypeError")
                      ELSE [Returned("ana_deriv", c, args, r.deriv)
                            EXCEPT !.calls = r.calls]
    /\ Unchanged

\* The call returns to its caller.
Return ==
    /\ ~Idle
    /\ call' = NoCall
    /\ Unchanged

\* __init__(problem, name), for both composers
Init ==
    /\ functions = [c \in Composers |-> <<>>]
    /\ cnames = [c \in Composers |-> <<>>]
    /\ initialized = [c \in Composers |-> FALSE]
    /\ vnamesi = [c \in Composers |-> <<>>]
    /\ vnamesf = [c \in Composers |-> <<>>]
    /\ sizes = [c \in Composers |-> <<>>]
    /\ func_vars_int = [c \in Composers |-> <<>>]
    /\ func_vars_float = [c \in Composers |-> <<>>]
    /\ call = NoCall

\* What may be appended to composer c: the leaves, and to the outer composer
\* the inner one.
Appendable(c) == LeafIds \cup (IF c = "outer" THEN {"inner"} ELSE {})

\* One composer of leaf functions: registration, initialization, and the
\* operations of the initialized composer.
Next ==
    \/ \E f \in LeafIds : Append_("outer", f)
    \/ Initialize("outer")
    \/ SplitIndividual("outer")
    \/ SplitPopulation("outer")
    \/ CalcIndividual("outer")
    \/ AnaDeriv("outer")
    \/ Return

Spec == Init /\ [][Next]_vars

\* Composers nested in one another: registration and initialization.
NextNested ==
    \/ \E c \in Composers : \E f \in Appendable(c) : Append_(c, f)
    \/ \E c \in Composers : Initialize(c)
    \/ Return

SpecNested == Init /\ [][NextNested]_vars

(***************************************************************************)
(* What the properties below are stated with                               *)
(***************************************************************************)
\* The names sub-function f declares, by namespace; a composer declares its
\* registries.
var_names_int(f) == IF f \in Composers THEN vnamesi[f] ELSE Leaf[f].var_names_int
var_names_float(f) == IF f \in Composers THEN vnamesf[f] ELSE Leaf[f].var_names_float

Namespaces == {"int", "float"}
Declared(f, ns) == IF ns = "int" THEN var_names_int(f) ELSE var_names_float(f)
Registry(c, ns) == IF ns = "int" THEN vnamesi[c] ELSE vnamesf[c]
Mapping(c, ns) == IF ns = "int" THEN func_vars_int[c] ELSE func_vars_float[c]

RangeOf(s) == {s[k] : k \in 1..Len(s)}

RECURSIVE ConcatAll(_)
ConcatAll(ss) == IF ss = <<>> THEN <<>> ELSE ss[1] \o ConcatAll(Tail(ss))

\* The registry positions of the names function number k of c declares.
Positions(c, k, ns) ==
    LET decl == Declared(functions[c][k], ns)
    IN  [j \in 1..Len(decl) |-> Index(Registry(c, ns), decl[j])]

IsRun(pos) == \A j \in 1..(Len(pos) - 1) : pos[j + 1] = pos[j] + 1

\* The values of v, a vector in registry order, at the names function
\* number k of c declares, in the order it declares them.
LocalVector(c, k, ns, v) ==
    LET pos == Positions(c, k, ns)
    IN  [j \in 1..Len(pos) |-> At(v, pos[j])]

\* The offset range [Lo, Hi) of function number k of c in the ledger.
Lo(c, k) == SumSeq(SubSeq(sizes[c], 1, k - 1))
Hi(c, k) == SumSeq(SubSeq(sizes[c], 1, k))

CallIs(op) == call.op = op /\ ~call.raised

(***************************************************************************)
(* C1: after initialize(), the index mapping of a sub-function is empty    *)
(* when it declares no variable of the namespace, a slice when the         *)
(* registry positions of its names are a run of consecutive increasing     *)
(* integers, and the explicit list of the positions otherwise.             *)
(* The code never builds the slice: list(range(l[0], l[-1])) lacks l[-1].  *)
(***************************************************************************)
C1_RangeWhenConsecutive ==
    \A c \in Composers : initialized[c] =>
        \A k \in 1..Len(functions[c]) : \A ns \in Namespaces :
            LET pos == Positions(c, k, ns)
                m == Mapping(c, ns)[k]
            IN  IF Len(pos) = 0 THEN m = ListMap(<<>>)
                ELSE IF IsRun(pos) THEN m.kind = "slice"
                ELSE m = ListMap(pos)

(***************************************************************************)
(* C2: ana_deriv with an explicit components list calls only sub-functions *)
(* whose offset range holds a requested component, and passes each the     *)
(* requested components of its range as local indices (minus its start     *)
(* offset).  The code passes them on untranslated.                         *)
(***************************************************************************)
C2_DelegatesLocalComponents ==
    (CallIs("ana_deriv") /\ call.args.components.given) =>
        \A j \in 1..Len(call.calls) :
            LET cl == call.calls[j]
                c == call.obj
                k == cl.fi + 1
                own == SelectSeq(call.args.components.list,
                                 LAMBDA x : x >= Lo(c, k) /\ x < Hi(c, k))
            IN  /\ Len(own) > 0
                /\ cl.components = [i \in 1..Len(own) |-> own[i] - Lo(c, k)]

(***************************************************************************)
(* C3: the local vectors handed to a sub-function hold, at each local      *)
(* position j, the value the registry-ordered vector has for the variable  *)
(* the sub-function declares at position j.                                *)
(***************************************************************************)
C3_LocalVectorFollowsDeclaredOrder ==
    (CallIs("calc_individual") \/ CallIs("ana_deriv")) =>
        \A j \in 1..Len(call.calls) :
            LET cl == call.calls[j]
                c == call.obj
                k == cl.fi + 1
            IN  /\ cl.f = functions[c][k]
                /\ cl.varsi = LocalVector(c, k, "int", call.args.vars_int)
                /\ cl.varsf = LocalVector(c, k, "float", call.args.vars_float)

\* Registry [x, y, z] with values [10, 20, 30]: A, declaring [x, z], is
\* handed [10, 30], and B, declaring [y], is handed [20].
C3_Witness ==
    /\ CallIs("calc_individual")
    /\ functions["outer"] = <<"G", "A", "B">>
    /\ vnamesf["outer"] = <<"x", "y", "z">>
    /\ call.args.vars_float = <<10, 20, 30>>
    /\ call.calls[2].varsf = <<10, 30>>
    /\ call.calls[3].varsf = <<20>>

(***************************************************************************)
(* C4: a rejected append (composer already initialized, or the function's  *)
(* problem is not the composer's) raises and leaves the function list and  *)
(* the component names as they were; the function list changes only by a   *)
(* successful append to a composer not yet initialized.                    *)
(***************************************************************************)
C4_RejectedAppendChangesNothing ==
    [][ /\ (call.op = "none" /\ call'.op = "append") =>
              LET c == call'.obj
                  f == call'.args[1]
                  rejected == initialized[c] \/ problem(f) # problem(c)
              IN  /\ call'.raised <=> rejected
                  /\ rejected => (functions' = functions /\ cnames' = cnames)
                  /\ ~rejected =>
                       /\ functions' = [functions EXCEPT ![c] = Append(@, f)]
                       /\ cnames' = [cnames EXCEPT ![c] = @ \o component_names(f)]
        /\ (functions' # functions \/ cnames' # cnames) =>
              /\ call'.op = "append"
              /\ ~call'.raised
              /\ ~initialized[call'.obj]
              /\ functions'[call'.obj] = Append(functions[call'.obj], call'.args[1])
      ]_vars

\* An append to an initialized composer that holds functions was rejected.
C4_Witness ==
    /\ call.op = "append"
    /\ call.raised
    /\ initialized[call.obj]
    /\ Len(functions[call.obj]) >= 2
    /\ Len(cnames[call.obj]) >= 2

(***************************************************************************)
(* C5: split_individual(d), for d of length n_components(), returns one    *)
(* piece per sub-function in registration order, piece i of length         *)
(* sizes[i]; the pieces are taken from offset ranges that follow one       *)
(* another without gap or overlap, and their concatenation is d.  The same *)
(* holds of split_population in every row.                                 *)
(***************************************************************************)
C5_SplitRoundTrip ==
    LET c == call.obj
        d == call.args.data
        n == Len(functions[c])
        at == call.calls
        tiles == /\ Len(at) = n
                 /\ \A i \in 1..n :
                       /\ at[i].i0 = (IF i = 1 THEN 0 ELSE at[i - 1].i1)
                       /\ at[i].i1 = at[i].i0 + sizes[c][i]
    IN  /\ CallIs("split_individual") =>
              /\ Len(d) = n_components(c)
              /\ Len(call.ret) = n
              /\ tiles
              /\ \A i \in 1..n :
                    /\ Len(call.ret[i]) = sizes[c][i]
                    /\ \A j \in 1..sizes[c][i] : call.ret[i][j] = At(d, at[i].i0 + j - 1)
              /\ ConcatAll(call.ret) = d
        /\ CallIs("split_population") =>
              /\ Len(call.ret) = n
              /\ tiles
              /\ \A i \in 1..n :
                    /\ Len(call.ret[i]) = Len(d)
                    /\ \A r \in 1..Len(d) : Len(call.ret[i][r]) = sizes[c][i]
              /\ \A r \in 1..Len(d) :
                    ConcatAll([i \in 1..n |-> call.ret[i][r]]) = d[r]

\* A vector of five components was split into pieces of 1, 2 and 2.
C5_Witness ==
    /\ CallIs("split_individual")
    /\ sizes[call.obj] = <<1, 2, 2>>
    /\ call.args.data = <<1, 2, 3, 4, 5>>
    /\ call.ret = << <<1>>, <<2, 3>>, <<4, 5>> >>

(***************************************************************************)
(* C6: calc_individual calls the sub-functions in registration order,      *)
(* assigns their outputs to offset ranges that follow one another, so that *)
(* every position of the result is assigned exactly once and no sentinel   *)
(* is left, and returns the concatenation of the outputs each sub-function *)
(* gives on its own local vectors.                                         *)
(***************************************************************************)
C6_CalcIndividualConcatenates ==
    CallIs("calc_individual") =>
        LET c == call.obj
            n == Len(functions[c])
            cs == call.calls
            own(k) == LeafCalcIndividual(functions[c][k],
                          LocalVector(c, k, "int", call.args.vars_int),
                          LocalVector(c, k, "float", call.args.vars_float))
        IN  /\ Len(cs) = n
            /\ \A k \in 1..n :
                  /\ cs[k].fi = k - 1
                  /\ cs[k].f = functions[c][k]
                  /\ cs[k].i0 = (IF k = 1 THEN 0 ELSE cs[k - 1].i1)
                  /\ cs[k].i1 = cs[k].i0 + Len(cs[k].ret)
            /\ Len(call.ret) = n_components(c)
            /\ \A p \in 1..Len(call.ret) :
                  call.writes[p] = 1 /\ call.ret[p] # NaN
            /\ call.ret = ConcatAll([k \in 1..n |-> own(k)])

\* A (one component) and B (two components): the result is A's output
\* followed by B's.
C6_Witness ==
    /\ CallIs("calc_individual")
    /\ functions[call.obj] = <<"A", "B">>
    /\ Len(call.ret) = 3
    /\ call.ret[1][2] = "A"
    /\ call.ret[2][2] = "B"
    /\ call.ret[3] = <<"val", "B", 1, <<1>>, <<10>>>>

(***************************************************************************)
(* C7: in the output of ana_deriv for the float variable at registry       *)
(* position var, the lanes of a sub-function (one per requested component  *)
(* of its offset range, the sub-functions' lanes following one another in  *)
(* registration order) hold the sentinel when the sub-function does not    *)
(* declare the variable, and otherwise what the sub-function's ana_deriv   *)
(* returned, called with its local vectors and the local position of the   *)
(* variable.  A variable no sub-function declares gives an all-sentinel    *)
(* output, an empty components list an empty output.                       *)
(***************************************************************************)
C7_DerivLanesSentinelOrDelegated ==
    CallIs("ana_deriv") =>
        LET c == call.obj
            n == Len(functions[c])
            a == call.args
            req == a.components.list
            \* per sub-function: its offset range, the number of its lanes,
            \* the first of them, and the positions of its float variables
            lo == [k \in 1..n |-> Lo(c, k)]
            cnt == [k \in 1..n |->
                      IF a.components.given
                      THEN Cardinality({i \in 1..Len(req) :
                                          /\ req[i] >= lo[k]
                                          /\ req[i] < lo[k] + sizes[c][k]})
                      ELSE sizes[c][k]]
            before == [k \in 1..n |-> SumSeq(SubSeq(cnt, 1, k - 1))]
            has == [k \in 1..n |-> In(a.var, Positions(c, k, "float"))]
            lanes(k) == SubSeq(call.ret, before[k] + 1, before[k] + cnt[k])
            made(k) == {j \in 1..Len(call.calls) : call.calls[j].fi = k - 1}
        IN  /\ Len(call.ret) = (IF a.components.given THEN Len(req)
                                ELSE n_components(c))
            /\ \A k \in 1..n :
                  IF has[k] /\ cnt[k] > 0
                  THEN /\ Cardinality(made(k)) = 1
                       /\ \A j \in made(k) :
                             LET cl == call.calls[j]
                             IN  /\ cl.var \in 0..(Len(Declared(functions[c][k], "float")) - 1)
                                 /\ At(Declared(functions[c][k], "float"), cl.var)
                                      = At(vnamesf[c], a.var)
                                 /\ cl.ret = LeafAnaDeriv(functions[c][k],
                                       LocalVector(c, k, "int", a.vars_int),
                                       LocalVector(c, k, "float", a.vars_float),
                                       cl.var, cl.components)
                                 /\ Len(cl.ret) = cnt[k]
                                 /\ lanes(k) = cl.ret
                  ELSE /\ made(k) = {}
                       /\ lanes(k) = Full(cnt[k])
            /\ (\A k \in 1..n : ~has[k]) => call.ret = Full(Len(call.ret))
            /\ (a.components.given /\ req = <<>>) => call.ret = <<>>

\* A declares [x, z] and B declares [y]; for y (registry position 2) the
\* lane of A holds the sentinel and the lanes of B hold B's derivatives.
C7_Witness ==
    /\ CallIs("ana_deriv")
    /\ functions[call.obj] = <<"A", "B">>
    /\ ~call.args.components.given
    /\ call.args.var = 2
    /\ call.ret[1] = NaN
    /\ call.ret[2] = <<"d", "B", 1, 0, <<1>>, <<30>>>>
    /\ Len(call.calls) = 1

(***************************************************************************)
(* C8: after initialize(), each registry holds every name a registered     *)
(* sub-function declares exactly once, and no other name, in the order of  *)
(* first appearance in the declared lists concatenated in registration     *)
(* order.                                                                  *)
(***************************************************************************)
C8_RegistryUniqueFirstSeen ==
    \A c \in Composers : initialized[c] =>
        \A ns \in Namespaces :
            LET all == ConcatAll([k \in 1..Len(functions[c]) |->
                                    Declared(functions[c][k], ns)])
                reg == Registry(c, ns)
                first(v) == CHOOSE i \in 1..Len(all) :
                               all[i] = v /\ \A j \in 1..(i - 1) : all[j] # v
            IN  /\ \A v \in RangeOf(all) :
                      Cardinality({i \in 1..Len(reg) : reg[i] = v}) = 1
                /\ RangeOf(reg) \subseteq RangeOf(all)
                /\ \A i \in 1..Len(reg) : \A j \in 1..Len(reg) :
                      i < j => first(reg[i]) < first(reg[j])

\* G, A and B declare x and y twice: the float registry is [x, y, z].
C8_Witness ==
    /\ initialized["outer"]
    /\ functions["outer"] = <<"G", "A", "B">>
    /\ vnamesf["outer"] = <<"x", "y", "z">>
    /\ vnamesi["outer"] = <<"i", "j">>

(***************************************************************************)
(* C9: for every explicit components list, in any order, entry k of the    *)
(* output of ana_deriv is the value (derivative or sentinel) of component  *)
(* components[k].  The code groups the output by sub-function instead.     *)
(***************************************************************************)
C9_OutputAlignedWithRequest ==
    (CallIs("ana_deriv") /\ call.args.components.given) =>
        LET c == call.obj
            req == call.args.components.list
            \* the positions of the request that fall to function number k
            at(k) == SelectSeq([i \in 1..Len(req) |-> i],
                               LAMBDA i : req[i] >= Lo(c, k) /\ req[i] < Hi(c, k))
            made(k) == {j \in 1..Len(call.calls) : call.calls[j].fi = k - 1}
        IN  /\ Len(call.ret) = Len(req)
            /\ \A k \in 1..Len(functions[c]) :
                  \A i \in 1..Len(at(k)) :
                      IF made(k) = {}
                      THEN call.ret[at(k)[i]] = NaN
                      ELSE \A j \in made(k) :
                              call.ret[at(k)[i]] = call.calls[j].ret[i]

\* The same, for the lists whose components do not decrease.
AlignedWhenAscending ==
    (CallIs("ana_deriv") /\ call.args.components.given
       /\ \A i \in 1..(Len(call.args.components.list) - 1) :
             call.args.components.list[i] <= call.args.components.list[i + 1])
    => C9_OutputAlignedWithRequest

(***************************************************************************)
(* C10: after initialize() of a composer, its component-name list is as    *)
(* long as n_components(), whatever appends were made before, those to a   *)
(* composer nested in it after it was appended included.  The code copies  *)
(* the component names of the nested composer when it is appended.         *)
(***************************************************************************)
C10_CNamesMatchComponents ==
    \A c \in Composers : initialized[c] => Len(cnames[c]) = n_components(c)
====
